---- MODULE Spec2Model ----
(***************************************************************************)
(* Doc2Vec_Modeler.py: the model wrapper Doc2VecModeler and the registry   *)
(* DocVecModelEvaluator.                                                   *)
(*                                                                         *)
(* A Python object is modelled by its attribute dictionary: a function     *)
(* whose DOMAIN is the set of attributes assigned so far.  Reading an      *)
(* attribute outside the DOMAIN is the AttributeError of the interpreter,  *)
(* reading a name that the module never binds is its NameError.  A call    *)
(* that raises keeps the assignments made before the raising line.         *)
(*                                                                         *)
(* Floats are exact fractions [nan, num, den] with den > 0.                *)
(***************************************************************************)
EXTENDS Integers, Sequences, FiniteSets, TLC

VARIABLES
    model,      \* the Doc2VecModeler the caller holds (its __dict__)
    doc_eval,   \* the DocVecModelEvaluator (its __dict__)
    raised      \* the last call: operation, flags, model name, exception, line

vars == <<model, doc_eval, raised>>

----------------------------------------------------------------------------
(* Bounds of the model *)

MaxDocs  == 2      \* training corpora hold 1..MaxDocs documents
MaxCache == 4      \* self-recognition is not started beyond this cache size

(* Program constants *)

DefaultDm       == 1
DefaultMinCount == 2
DefaultEpochs   == 100

----------------------------------------------------------------------------
(* Python values *)

EmptyDict == [k \in {} |-> 0]

Put(d, k, v) == [x \in DOMAIN d \cup {k} |-> IF x = k THEN v ELSE d[x]]

HasAttr(o, a) == a \in DOMAIN o

F(n, d) == [nan |-> FALSE, num |-> n, den |-> d]
NaN     == [nan |-> TRUE, num |-> 0, den |-> 1]

\* IEEE comparison: any comparison with nan is False
Lt(a, b) == ~a.nan /\ ~b.nan /\ a.num * b.den < b.num * a.den
Ge(a, b) == ~a.nan /\ ~b.nan /\ a.num * b.den >= b.num * a.den

\* the names bound at module level: the imports, the two classes and main
ModuleGlobals ==
    {"pd", "np", "plt", "re", "gensim", "cosine_similarity",
     "LogisticRegression", "LinearRegression", "cosine", "euclidean",
     "ttest_ind", "save_in_pkl", "read_in_pkl",
     "Doc2VecModeler", "DocVecModelEvaluator", "main"}

Bound(name) == name \in ModuleGlobals

Ok(o)          == [w |-> o, exc |-> "none", line |-> 0]
Raise(o, e, l) == [w |-> o, exc |-> e, line |-> l]

\* run step Op on the object of r unless r already raised
Bind(r, Op(_)) == IF r.exc # "none" THEN r ELSE Op(r.w)

----------------------------------------------------------------------------
(* Inputs *)

\* a training corpus of n tagged documents, tagged 0..n-1 in order
Corpus(n) == [i \in 1..n |-> [words |-> i - 1, tags |-> i - 1]]

Corpora == {Corpus(n) : n \in 1..MaxDocs}

\* the names main gives its first two models
ModelNames == {"r_50", "r_100"}

\* what infer_vector may return (training and inference are randomised)
VecSpace == {<<1>>, <<-1>>}

\* pairing tables: the pairing records loaded by main, and an empty table
train_pairings_df ==
    << [ref_pp_text |-> 1, tate_pp_text |-> 1, is_pair |-> 1],
       [ref_pp_text |-> 1, tate_pp_text |-> 2, is_pair |-> 0] >>

test_pairings_df ==
    << [ref_pp_text |-> 3, tate_pp_text |-> 4, is_pair |-> 0] >>

PairingSets == {<< >>, train_pairings_df, test_pairings_df}

\* what a two-sample t-test may return for two non-empty samples
\* (p in exact fractions; 1/100 is the significance level itself)
TTestOutcomes ==
    { [stat |-> NaN,       p |-> NaN],
      [stat |-> F(-64, 1), p |-> F(9, 1000)],
      [stat |-> F(-63, 1), p |-> F(1, 100)] }

----------------------------------------------------------------------------
(* Doc2VecModeler *)

Doc2VecModeler(model_name, train_corpus, training_corpus_name, vector_size) ==
    [ model_name           |-> model_name,
      train_corpus         |-> train_corpus,
      n_training_docs      |-> Len(train_corpus),
      training_corpus_name |-> training_corpus_name,
      vector_size          |-> vector_size,
      dm                   |-> DefaultDm,
      min_count            |-> DefaultMinCount,
      epochs               |-> DefaultEpochs,
      inferred_vecs        |-> [docs |-> << >>, vecs |-> << >>] ]

fit_model_resetting_cache(w) ==
    Put(Put(w, "inferred_vecs", [docs |-> << >>, vecs |-> << >>]), "model",
        [vector_size |-> w.vector_size, dm |-> w.dm, min_count |-> w.min_count,
         epochs |-> w.epochs, corpus_count |-> Len(w.train_corpus)])

fit_model(w) ==
    Put(w, "model",
        [vector_size |-> w.vector_size, dm |-> w.dm, min_count |-> w.min_count,
         epochs |-> w.epochs, corpus_count |-> Len(w.train_corpus)])

\* collections.Counter over a list of ranks: rank -> number of occurrences
Counter(ranks) ==
    [r \in {ranks[i] : i \in DOMAIN ranks} |->
        Cardinality({i \in DOMAIN ranks : ranks[i] = r})]

\* Counter.__getitem__: a missing key counts 0
CounterGet(c, k) == IF k \in DOMAIN c THEN c[k] ELSE 0

RECURSIVE SumOver(_, _)
SumOver(f, S) ==
    IF S = {} THEN 0
    ELSE LET x == CHOOSE y \in S : TRUE IN f[x] + SumOver(f, S \ {x})

Total(f) == SumOver(f, DOMAIN f)

\* the loop body's two appends, for the first n documents
AppendInferred(w, vecs, n) ==
    Put(w, "inferred_vecs",
        [docs |-> w.inferred_vecs.docs \o [i \in 1..n |-> w.train_corpus[i].words],
         vecs |-> w.inferred_vecs.vecs \o [i \in 1..n |-> vecs[i]]])

\* vecs[i]: the vector inferred for document i; ranks[i]: the position of
\* document i's own tag in most_similar's answer (0 is first)
calc_self_recognition_ability(w, vecs, ranks) ==
    IF ~HasAttr(w, "model") THEN Raise(w, "AttributeError", 52)
    ELSE
    LET n    == w.n_training_docs
        topn == w.model.corpus_count      \* len(model.docvecs) = len(sims)
        all  == AppendInferred(w, vecs, n)
    IN  IF n >= 1 /\ topn < 2
        THEN Raise(AppendInferred(w, vecs, 1), "IndexError", 63)  \* sims[1]
        ELSE IF ~Bound("collections")
        THEN Raise(all, "NameError", 64)
        ELSE
        LET rank_counter == Counter(ranks)
            w1 == Put(all, "rank_counter", rank_counter)
            w2 == Put(w1, "n_self_recognized", CounterGet(rank_counter, 0))
        IN  IF n = 0 THEN Raise(w2, "ZeroDivisionError", 67)
            ELSE
            LET rate == F(w2.n_self_recognized, n)
                w3   == Put(w2, "self_recog_rate", rate)
            IN  Ok(Put(w3, "greater_than_95", Ge(rate, F(95, 100))))

----------------------------------------------------------------------------
(* Pairing tables: a table is a sequence of rows, a column selection under *)
(* a boolean mask is a Series: a function from the kept row labels.        *)

MaskEq(df, v) == [i \in DOMAIN df |-> df[i].is_pair = v]

MaskNot(mask) == [i \in DOMAIN mask |-> ~mask[i]]

Select(df, mask, col) == [i \in {j \in DOMAIN df : mask[j]} |-> df[i][col]]

Values(s) == {s[i] : i \in DOMAIN s}

mean(s) == IF DOMAIN s = {} THEN NaN ELSE F(Total(s), Cardinality(DOMAIN s))

max(s) ==
    IF DOMAIN s = {} THEN NaN
    ELSE F(CHOOSE m \in Values(s) : \A x \in Values(s) : x <= m, 1)

min(s) ==
    IF DOMAIN s = {} THEN NaN
    ELSE F(CHOOSE m \in Values(s) : \A x \in Values(s) : m <= x, 1)

Dot(u, v) == SumOver([i \in DOMAIN u |-> u[i] * v[i]], DOMAIN u)

\* the root of a perfect square (the norms and distances of VecSpace are whole)
Sqrt(n) == CHOOSE r \in 0..n : r * r = n

\* scipy.spatial.distance.cosine: the cosine distance 1 - u.v / (|u| |v|)
cosine(u, v) == 1 - (Dot(u, v) \div (Sqrt(Dot(u, u)) * Sqrt(Dot(v, v))))

euclidean(u, v) == Sqrt(SumOver([i \in DOMAIN u |-> (u[i] - v[i]) * (u[i] - v[i])], DOMAIN u))

\* the group the summary statistics call the false pairs
FalseGroupEverything(df, is_true_pair) == [i \in DOMAIN df |-> TRUE]

FalseGroup(df, is_true_pair) == MaskNot(is_true_pair)

PairStats(df, is_true_pair, col) ==
    [ avg_tru   |-> mean(Select(df, is_true_pair, col)),
      avg_false |-> mean(Select(df, FalseGroup(df, is_true_pair), col)),
      max_tru   |-> max(Select(df, is_true_pair, col)),
      max_false |-> max(Select(df, FalseGroup(df, is_true_pair), col)),
      min_tru   |-> min(Select(df, is_true_pair, col)),
      min_false |-> min(Select(df, FalseGroup(df, is_true_pair), col)) ]

\* the columns the loop adds to a copy of the table
WithSims(pairings_df, inf) ==
    [ i \in DOMAIN pairings_df |->
        [ ref_pp_text  |-> pairings_df[i].ref_pp_text,
          tate_pp_text |-> pairings_df[i].tate_pp_text,
          is_pair      |-> pairings_df[i].is_pair,
          ref_vecs     |-> inf[i].ref,
          tate_vecs    |-> inf[i].tate,
          pair_cs      |-> 1 - cosine(inf[i].ref, inf[i].tate),
          pair_ed      |-> euclidean(inf[i].ref, inf[i].tate) ] ]

\* the loop reads self.model once per row
PairsNeverReadModel(w, pairings_df) == FALSE

PairsReadMissingModel(w, pairings_df) == Len(pairings_df) > 0 /\ ~HasAttr(w, "model")

\* inf[i]: the vectors inferred for the two documents of row i
calculate_pair_sims_array(w, pairings_df, inf, is_train) ==
    IF PairsReadMissingModel(w, pairings_df)
    THEN Raise(w, "AttributeError", 82)
    ELSE
    LET calc_pairings_df == WithSims(pairings_df, inf)
        is_true_pair     == MaskEq(calc_pairings_df, 1)
        pair_cs_stats    == PairStats(calc_pairings_df, is_true_pair, "pair_cs")
        pair_ed_stats    == PairStats(calc_pairings_df, is_true_pair, "pair_ed")
        true_cs   == Select(calc_pairings_df, MaskEq(calc_pairings_df, 1), "pair_cs")
        false_cs  == Select(calc_pairings_df, MaskEq(calc_pairings_df, 0), "pair_cs")
        true_ed   == Select(calc_pairings_df, MaskEq(calc_pairings_df, 1), "pair_ed")
        false_ed  == Select(calc_pairings_df, MaskEq(calc_pairings_df, 0), "pair_ed")
    IN  IF is_train
        THEN Ok([x \in DOMAIN w \cup {"tr_pairings_df", "train_true_cs", "train_false_cs",
                                      "train_true_ed", "train_false_ed",
                                      "tr_cs_pairings_stats", "tr_ed_pairings_stats"} |->
                  CASE x = "tr_pairings_df"       -> calc_pairings_df
                    [] x = "train_true_cs"        -> true_cs
                    [] x = "train_false_cs"       -> false_cs
                    [] x = "train_true_ed"        -> true_ed
                    [] x = "train_false_ed"       -> false_ed
                    [] x = "tr_cs_pairings_stats" -> pair_cs_stats
                    [] x = "tr_ed_pairings_stats" -> pair_ed_stats
                    [] OTHER                      -> w[x]])
        ELSE Ok([x \in DOMAIN w \cup {"tst_pairings_df", "test_true_cs", "test_false_cs",
                                      "test_true_ed", "test_false_ed",
                                      "tst_cs_pairings_stats", "tst_ed_pairings_stats"} |->
                  CASE x = "tst_pairings_df"       -> calc_pairings_df
                    [] x = "test_true_cs"          -> true_cs
                    [] x = "test_false_cs"         -> false_cs
                    [] x = "test_true_ed"          -> true_ed
                    [] x = "test_false_ed"         -> false_ed
                    [] x = "tst_cs_pairings_stats" -> pair_cs_stats
                    [] x = "tst_ed_pairings_stats" -> pair_ed_stats
                    [] OTHER                       -> w[x]])

----------------------------------------------------------------------------
(* The significance test *)

\* the table the test reads for a split
PairsDfAttrAlwaysTrain(for_train_pairings) == "tr_pairings_df"

PairsDfAttr(for_train_pairings) ==
    IF for_train_pairings THEN "tr_pairings_df" ELSE "tst_pairings_df"

SimCol(for_cs) == IF for_cs THEN "pair_cs" ELSE "pair_ed"

TrueSims(pairs_df, sim_col)  == Select(pairs_df, MaskEq(pairs_df, 1), sim_col)
FalseSims(pairs_df, sim_col) == Select(pairs_df, MaskEq(pairs_df, 0), sim_col)

\* scipy.stats.ttest_ind: nan for an empty sample, else one of the outcomes T
ttest_ind(true_sims, false_sims, T) ==
    IF DOMAIN true_sims = {} \/ DOMAIN false_sims = {}
    THEN {[stat |-> NaN, p |-> NaN]}
    ELSE T

\* p < 0.01
SignificantAtOrBelow(p) == ~p.nan /\ p.num * 100 <= p.den

Significant(p) == Lt(p, F(1, 100))

\* the three attributes the test writes for a (split, metric) combination
SigAttrs(for_train_pairings, for_cs) ==
    IF for_train_pairings
    THEN IF for_cs
         THEN [stat |-> "cs_train_stat", p |-> "cs_train_p_val", sig |-> "cs_is_train_significant"]
         ELSE [stat |-> "ed_train_stat", p |-> "ed_train_p_val", sig |-> "ed_is_train_significant"]
    ELSE IF for_cs
         THEN [stat |-> "cs_test_stat", p |-> "cs_test_p_val", sig |-> "cs_is_test_significant"]
         ELSE [stat |-> "ed_test_stat", p |-> "ed_test_p_val", sig |-> "ed_is_test_significant"]

\* tt: what ttest_ind returned
calc_tt_hypothesis_test(w, for_train_pairings, for_cs, tt) ==
    IF ~HasAttr(w, PairsDfAttr(for_train_pairings))
    THEN Raise(w, "AttributeError", 136)
    ELSE
    LET a == SigAttrs(for_train_pairings, for_cs)
    IN  Ok(Put(Put(Put(w, a.stat, tt.stat), a.p, tt.p), a.sig, Significant(tt.p)))

\* the outcomes ttest_ind may give on the wrapper's stored table
TTestOn(w, for_train_pairings, for_cs, T) ==
    IF ~HasAttr(w, PairsDfAttr(for_train_pairings)) THEN {[stat |-> NaN, p |-> NaN]}
    ELSE LET pairs_df == w[PairsDfAttr(for_train_pairings)]
         IN  ttest_ind(TrueSims(pairs_df, SimCol(for_cs)),
                       FalseSims(pairs_df, SimCol(for_cs)), T)

----------------------------------------------------------------------------
(* Plotting reads the stored distributions and assigns nothing; the figure *)
(* and its image file are outside the state.                                *)

PlotAttrs(use_train, use_cs) ==
    IF use_train
    THEN IF use_cs THEN <<"train_true_cs", "train_false_cs">>
                   ELSE <<"train_true_ed", "train_false_ed">>
    ELSE IF use_cs THEN <<"test_true_cs", "test_false_cs">>
                   ELSE <<"test_true_ed", "test_false_ed">>

plot_sim_distribution(w, use_train, use_cs, save_fig) ==
    LET a == PlotAttrs(use_train, use_cs)
    IN  IF ~HasAttr(w, a[1]) THEN Raise(w, "AttributeError", IF use_train THEN 166 ELSE 169)
        ELSE IF ~HasAttr(w, a[2]) THEN Raise(w, "AttributeError", IF use_train THEN 167 ELSE 170)
        ELSE Ok(w)

----------------------------------------------------------------------------
(* DocVecModelEvaluator *)

eval_areas_dict ==
    [ k \in {"model", "self_recog_rate", "cs_train_p_val", "cs_test_p_val",
             "ed_train_p_val", "ed_test_p_val", "cs_is_train_significant",
             "cs_is_test_significant", "ed_is_train_significant",
             "ed_is_test_significant", "tr_cs_pairings_stats",
             "tst_cs_pairings_stats", "tr_ed_pairings_stats",
             "tst_ed_pairings_stats"} |-> 0 ]

DocVecModelEvaluator ==
    [eval_areas_dict |-> eval_areas_dict, eval_dict |-> EmptyDict]

\* the attributes update_stats reads off the model, in order, with their lines
StatReadsWithoutSelfRecog ==
    << <<"cs_train_p_val", 217>>, <<"cs_test_p_val", 218>>,
       <<"ed_train_p_val", 219>>, <<"ed_test_p_val", 220>>,
       <<"cs_is_train_significant", 221>>, <<"cs_is_test_significant", 222>>,
       <<"ed_is_train_significant", 223>>, <<"ed_is_test_significant", 224>>,
       <<"tr_cs_pairings_stats", 225>>, <<"tst_cs_pairings_stats", 227>>,
       <<"tr_ed_pairings_stats", 229>>, <<"tst_ed_pairings_stats", 231>> >>

StatReads ==
    << <<"self_recog_rate", 216>>,
       <<"cs_train_p_val", 217>>, <<"cs_test_p_val", 218>>,
       <<"ed_train_p_val", 219>>, <<"ed_test_p_val", 220>>,
       <<"cs_is_train_significant", 221>>, <<"cs_is_test_significant", 222>>,
       <<"ed_is_train_significant", 223>>, <<"ed_is_test_significant", 224>>,
       <<"tr_cs_pairings_stats", 225>>, <<"tst_cs_pairings_stats", 227>>,
       <<"tr_ed_pairings_stats", 229>>, <<"tst_ed_pairings_stats", 231>> >>

\* the attributes copied into the entry under their own names
StatCopies ==
    {"self_recog_rate", "cs_train_p_val", "cs_test_p_val", "ed_train_p_val",
     "ed_test_p_val", "cs_is_train_significant", "cs_is_test_significant",
     "ed_is_train_significant", "ed_is_test_significant"}

Attr(m, a) == IF HasAttr(m, a) THEN m[a] ELSE 0

ModelEvalStats(m) ==
    [ k \in DOMAIN eval_areas_dict \cup
            {"tr_cs_true_mean", "tr_cs_false_mean", "tst_cs_true_mean", "tst_cs_false_mean",
             "tr_ed_true_mean", "tr_ed_false_mean", "tst_ed_true_mean", "tst_ed_false_mean"} |->
        CASE k = "model"             -> m
          [] k \in StatCopies        -> Attr(m, k)
          [] k = "tr_cs_true_mean"   -> m.tr_cs_pairings_stats.avg_tru
          [] k = "tr_cs_false_mean"  -> m.tr_cs_pairings_stats.avg_false
          [] k = "tst_cs_true_mean"  -> m.tst_cs_pairings_stats.avg_tru
          [] k = "tst_cs_false_mean" -> m.tst_cs_pairings_stats.avg_false
          [] k = "tr_ed_true_mean"   -> m.tr_ed_pairings_stats.avg_tru
          [] k = "tr_ed_false_mean"  -> m.tr_ed_pairings_stats.avg_false
          [] k = "tst_ed_true_mean"  -> m.tst_ed_pairings_stats.avg_tru
          [] k = "tst_ed_false_mean" -> m.tst_ed_pairings_stats.avg_false
          [] OTHER                   -> eval_areas_dict[k] ]

update_stats(self, m) ==
    LET missing == {i \in DOMAIN StatReads : ~HasAttr(m, StatReads[i][1])}
    IN  IF missing # {}
        THEN Raise(self, "AttributeError",
                   StatReads[CHOOSE i \in missing : \A j \in missing : i <= j][2])
        ELSE
        LET model_eval_stats == ModelEvalStats(m)
            s1 == Put(self, "eval_dict", Put(self.eval_dict, m.model_name, model_eval_stats))
        IN  Ok(Put(s1, "eval_cols", DOMAIN model_eval_stats))

print_model_eval_stats(self) ==
    IF ~HasAttr(self, "eval_cols") THEN Raise(self, "AttributeError", 237)
    ELSE Ok(Put(self, "eval_df", [rows |-> self.eval_dict, columns |-> self.eval_cols]))

----------------------------------------------------------------------------
(* train_new_model: the whole pipeline on a fresh wrapper.  The wrapper is *)
(* a local of the call and is lost when the call raises.                   *)

Inferences(df, V) == [DOMAIN df -> [ref : V, tate : V]]

DocVecs(n, V) == [1..n -> V]

RankLists(n) == [1..n -> 0..(n - 1)]

\* the record of a call: its operation, the model name it was given, its
\* boolean arguments, and how it ended
CalledWith(op, name, flags, r) ==
    [op |-> op, name |-> name, flags |-> flags, exc |-> r.exc, line |-> r.line]

Called(op, name, r) == CalledWith(op, name, << >>, r)

\* the call ends: the registry is left as reg, the outcome is that of r
Ends(reg, model_name, r) ==
    /\ doc_eval' = reg
    /\ raised' = Called("train_new_model", model_name, r)

\* lines 203-211 on a wrapper whose two pairing passes are done
TestsPlotsAndRecord(self, m, T) ==
    \E t1 \in TTestOn(m, TRUE, TRUE, T), t2 \in TTestOn(m, FALSE, TRUE, T),
       t3 \in TTestOn(m, TRUE, FALSE, T), t4 \in TTestOn(m, FALSE, FALSE, T) :
        LET r5  == calc_tt_hypothesis_test(m, TRUE, TRUE, t1)
            r6  == Bind(r5, LAMBDA w : calc_tt_hypothesis_test(w, FALSE, TRUE, t2))
            r7  == Bind(r6, LAMBDA w : calc_tt_hypothesis_test(w, TRUE, FALSE, t3))
            r8  == Bind(r7, LAMBDA w : calc_tt_hypothesis_test(w, FALSE, FALSE, t4))
            r9  == Bind(r8, LAMBDA w : plot_sim_distribution(w, TRUE, TRUE, TRUE))
            r10 == Bind(r9, LAMBDA w : plot_sim_distribution(w, FALSE, TRUE, TRUE))
            r11 == Bind(r10, LAMBDA w : plot_sim_distribution(w, TRUE, FALSE, TRUE))
            r12 == Bind(r11, LAMBDA w : plot_sim_distribution(w, FALSE, FALSE, TRUE))
        IN  IF r12.exc # "none" THEN Ends(self, m.model_name, r12)
            ELSE IF ~Bound("update_stats")      \* the bare name, not self.update_stats
            THEN Ends(self, m.model_name, Raise(self, "NameError", 211))
            ELSE LET r13 == update_stats(self, r12.w)
                 IN  Ends(r13.w, m.model_name, r13)

train_new_model(self, model_name, train_corpus, train_corp_name, vector_size, V, T) ==
    LET m0 == Doc2VecModeler(model_name, train_corpus, train_corp_name, vector_size)
        m1 == fit_model(m0)
    IN  \E vecs \in DocVecs(Len(train_corpus), V), ranks \in RankLists(Len(train_corpus)) :
        LET r2 == calc_self_recognition_ability(m1, vecs, ranks)
        IN  IF r2.exc # "none" THEN Ends(self, model_name, r2)
            ELSE IF ~Bound("train_pairings_df")     \* a local of main
            THEN Ends(self, model_name, Raise(self, "NameError", 201))
            ELSE IF ~Bound("test_pairings_df")      \* a local of main
            THEN Ends(self, model_name, Raise(self, "NameError", 202))
            ELSE \E i1 \in Inferences(train_pairings_df, V),
                    i2 \in Inferences(test_pairings_df, V) :
                 LET r3 == calculate_pair_sims_array(r2.w, train_pairings_df, i1, TRUE)
                     r4 == Bind(r3, LAMBDA w :
                                calculate_pair_sims_array(w, test_pairings_df, i2, FALSE))
                 IN  IF r4.exc # "none" THEN Ends(self, model_name, r4)
                     ELSE TestsPlotsAndRecord(self, r4.w, T)

----------------------------------------------------------------------------
(* The calls a caller can make.  Each records its outcome in raised.       *)

Constructed == HasAttr(model, "model_name")

\* the wrapper main builds first, over a corpus of the caller's choice
Call_Doc2VecModeler ==
    \E corpus \in Corpora :
        /\ model' = Doc2VecModeler("r_50", corpus, "r_tr", 50)
        /\ raised' = Called("__init__", "", Ok(model'))
        /\ UNCHANGED doc_eval

Call_fit_model ==
    /\ Constructed
    /\ model' = fit_model(model)
    /\ raised' = Called("fit_model", "", Ok(model'))
    /\ UNCHANGED doc_eval

Call_calc_self_recognition_ability(V) ==
    /\ Constructed
    /\ Len(model.inferred_vecs.docs) + model.n_training_docs <= MaxCache
    /\ \E vecs \in DocVecs(model.n_training_docs, V),
          ranks \in RankLists(model.n_training_docs) :
        LET r == calc_self_recognition_ability(model, vecs, ranks)
        IN  /\ model' = r.w
            /\ raised' = Called("calc_self_recognition_ability", "", r)
    /\ UNCHANGED doc_eval

Call_calculate_pair_sims_array(P, V) ==
    /\ Constructed
    /\ \E pairings_df \in P, is_train \in BOOLEAN :
       \E inf \in Inferences(pairings_df, V) :
        LET r == calculate_pair_sims_array(model, pairings_df, inf, is_train)
        IN  /\ model' = r.w
            /\ raised' = CalledWith("calculate_pair_sims_array", "", <<is_train>>, r)
    /\ UNCHANGED doc_eval

Call_calc_tt_hypothesis_test(T) ==
    /\ Constructed
    /\ \E for_train_pairings \in BOOLEAN, for_cs \in BOOLEAN :
       \E tt \in TTestOn(model, for_train_pairings, for_cs, T) :
        LET r == calc_tt_hypothesis_test(model, for_train_pairings, for_cs, tt)
        IN  /\ model' = r.w
            /\ raised' = CalledWith("calc_tt_hypothesis_test", "",
                                    <<for_train_pairings, for_cs>>, r)
    /\ UNCHANGED doc_eval

Call_plot_sim_distribution ==
    /\ Constructed
    /\ \E use_train \in BOOLEAN, use_cs \in BOOLEAN, save_fig \in BOOLEAN :
        LET r == plot_sim_distribution(model, use_train, use_cs, save_fig)
        IN  /\ model' = r.w
            /\ raised' = Called("plot_sim_distribution", "", r)
    /\ UNCHANGED doc_eval

Call_update_stats ==
    /\ Constructed
    /\ LET r == update_stats(doc_eval, model)
       IN  /\ doc_eval' = r.w
           /\ raised' = Called("update_stats", model.model_name, r)
    /\ UNCHANGED model

\* the calls of main: its model names with their vector sizes
Call_train_new_model(V, T) ==
    /\ \E name \in ModelNames, corpus \in Corpora :
        train_new_model(doc_eval, name, corpus, "r_tr",
                        IF name = "r_50" THEN 50 ELSE 100, V, T)
    /\ UNCHANGED model

Call_print_model_eval_stats ==
    /\ LET r == print_model_eval_stats(doc_eval)
       IN  /\ doc_eval' = r.w
           /\ raised' = Called("print_model_eval_stats", "", r)
    /\ UNCHANGED model

----------------------------------------------------------------------------
(* The specifications.  Spec makes every call in every order, with one     *)
(* inferable vector and the t-test undefined; SpecPairs and SpecTests      *)
(* widen the inferred vectors and the t-test outcomes for the calls about  *)
(* them.                                                                   *)

Init ==
    /\ model = EmptyDict
    /\ doc_eval = DocVecModelEvaluator
    /\ raised = Called("DocVecModelEvaluator", "", Ok(doc_eval))

FixedVec == {<<1>>}

\* two single-element samples leave the t-test without a variance estimate
NanOutcome == {[stat |-> NaN, p |-> NaN]}

Next ==
    \/ Call_Doc2VecModeler
    \/ Call_fit_model
    \/ Call_calc_self_recognition_ability(FixedVec)
    \/ Call_calculate_pair_sims_array({<< >>, train_pairings_df}, FixedVec)
    \/ Call_calc_tt_hypothesis_test(NanOutcome)
    \/ Call_plot_sim_distribution
    \/ Call_update_stats
    \/ Call_train_new_model(FixedVec, NanOutcome)
    \/ Call_print_model_eval_stats

Spec == Init /\ [][Next]_vars

NextPairs ==
    \/ Call_Doc2VecModeler
    \/ Call_fit_model
    \/ Call_calculate_pair_sims_array(PairingSets, VecSpace)
    \/ Call_plot_sim_distribution

SpecPairs == Init /\ [][NextPairs]_vars

NextTests ==
    \/ Call_Doc2VecModeler
    \/ Call_fit_model
    \/ Call_calculate_pair_sims_array({train_pairings_df}, FixedVec)
    \/ Call_calc_tt_hypothesis_test(TTestOutcomes)

SpecTests == Init /\ [][NextTests]_vars

----------------------------------------------------------------------------
(* The claims *)

CacheLen(w) == Len(w.inferred_vecs.docs)

SplitTable(for_train) == IF for_train THEN "tr_pairings_df" ELSE "tst_pairings_df"

Triple(for_train, for_cs) ==
    LET a == SigAttrs(for_train, for_cs) IN {a.stat, a.p, a.sig}

AllSigAttrs == UNION {Triple(t, c) : t \in BOOLEAN, c \in BOOLEAN}

PairAttrs ==
    {"tr_pairings_df", "tr_cs_pairings_stats", "tr_ed_pairings_stats",
     "tst_pairings_df", "tst_cs_pairings_stats", "tst_ed_pairings_stats"}

SelfRecogAttrs == {"rank_counter", "n_self_recognized", "self_recog_rate", "greater_than_95"}

\* the pass of a split is stored and was over a non-empty pairing set
NonEmptyPass(w, for_train) ==
    HasAttr(w, SplitTable(for_train)) /\ Len(w[SplitTable(for_train)]) > 0

\* the whole pipeline has left its results on the wrapper
Complete(w) == (SelfRecogAttrs \cup PairAttrs \cup AllSigAttrs) \subseteq DOMAIN w

\* C1: every train_and_evaluate call returns, and then the aggregate mapping
\* holds an entry under the call's name, made from a model of that name
C1_TrainAndEvaluateRecords ==
    raised.op = "train_new_model" =>
        /\ raised.exc = "none"
        /\ raised.name \in DOMAIN doc_eval.eval_dict
        /\ doc_eval.eval_dict[raised.name]["model"].model_name = raised.name

\* C2: a recording under a name (train_and_evaluate, or record on a wrapper)
\* leaves the mapping with an entry under that name and every entry under
\* another name as it was: the name is added once or overwritten
C2_RecordingOverwritesByName ==
    [][ raised'.op \in {"train_new_model", "update_stats"} =>
          /\ DOMAIN doc_eval'.eval_dict = DOMAIN doc_eval.eval_dict \cup {raised'.name}
          /\ \A k \in DOMAIN doc_eval.eval_dict \ {raised'.name} :
                doc_eval'.eval_dict[k] = doc_eval.eval_dict[k] ]_vars

\* C3 (as stated): results of a stage exist only on a wrapper that has the
\* results of every earlier stage (fit, self-recognition, the train pass, the
\* test pass, the tests); stated for passes over non-empty pairing sets
C3_StagesInOrder ==
    Constructed =>
        /\ CacheLen(model) > 0 => HasAttr(model, "model")
        /\ NonEmptyPass(model, TRUE) => CacheLen(model) > 0
        /\ NonEmptyPass(model, FALSE) => NonEmptyPass(model, TRUE)
        /\ (AllSigAttrs \cap DOMAIN model # {}) =>
              {"tr_pairings_df", "tst_pairings_df"} \subseteq DOMAIN model

\* C3 (amended): results of a stage exist only on a wrapper that has what the
\* stage reads: self-recognition and a pass over a non-empty pairing set need
\* the fitted model, a test of a split needs the pass of that split
C3_StagesNeedWhatTheyRead ==
    Constructed =>
        /\ CacheLen(model) > 0 => HasAttr(model, "model")
        /\ \A t \in BOOLEAN :
              NonEmptyPass(model, t) => HasAttr(model, "model")
        /\ \A t \in BOOLEAN, c \in BOOLEAN :
              (Triple(t, c) \cap DOMAIN model # {}) => HasAttr(model, SplitTable(t))

\* C3 witness: the train pass has completed on a fitted wrapper that never ran
\* self-recognition, and a test of the train split has completed without the
\* test pass
C3_Witness ==
    /\ Constructed
    /\ raised.op = "calc_tt_hypothesis_test" /\ raised.exc = "none"
    /\ HasAttr(model, "tr_pairings_df") /\ Len(model.tr_pairings_df) > 0
    /\ ~HasAttr(model, "tst_pairings_df")
    /\ CacheLen(model) = 0

\* C4: a significance test of a split whose pass has not run raises and
\* assigns nothing; one whose pass has run returns, assigns the statistic,
\* the p-value and the flag of the requested combination and nothing else
C4_TestNeedsItsSplit ==
    [][ raised'.op = "calc_tt_hypothesis_test" =>
          LET t == raised'.flags[1]
              c == raised'.flags[2]
          IN  IF ~HasAttr(model, SplitTable(t))
              THEN raised'.exc # "none" /\ model' = model
              ELSE /\ raised'.exc = "none"
                   /\ DOMAIN model' = DOMAIN model \cup Triple(t, c)
                   /\ \A a \in DOMAIN model \ Triple(t, c) : model'[a] = model[a] ]_vars

\* C4 witness: a test of the test split has raised on a wrapper whose train
\* pass had run, and the train tests it holds were written before
C4_Witness ==
    /\ Constructed
    /\ raised.op = "calc_tt_hypothesis_test" /\ raised.flags = <<FALSE, TRUE>>
    /\ raised.exc = "AttributeError"
    /\ HasAttr(model, "tr_pairings_df") /\ ~HasAttr(model, "tst_pairings_df")
    /\ Triple(TRUE, TRUE) \subseteq DOMAIN model
    /\ AllSigAttrs \cap DOMAIN model = Triple(TRUE, TRUE)

\* the groups of one stored pass: table, stored distributions, statistics
GroupsAgree(df, true_cs, false_cs, true_ed, false_ed, cs_stats, ed_stats) ==
    /\ DOMAIN true_cs \cap DOMAIN false_cs = {}
    /\ Cardinality(DOMAIN true_cs) + Cardinality(DOMAIN false_cs) = Len(df)
    /\ DOMAIN true_ed = DOMAIN true_cs /\ DOMAIN false_ed = DOMAIN false_cs
    /\ \A i \in DOMAIN true_cs : df[i].is_pair = 1 /\ true_cs[i] = df[i].pair_cs
                                                    /\ true_ed[i] = df[i].pair_ed
    /\ \A i \in DOMAIN false_cs : df[i].is_pair # 1 /\ false_cs[i] = df[i].pair_cs
                                                     /\ false_ed[i] = df[i].pair_ed
    /\ cs_stats = [avg_tru |-> mean(true_cs), avg_false |-> mean(false_cs),
                   max_tru |-> max(true_cs),  max_false |-> max(false_cs),
                   min_tru |-> min(true_cs),  min_false |-> min(false_cs)]
    /\ ed_stats = [avg_tru |-> mean(true_ed), avg_false |-> mean(false_ed),
                   max_tru |-> max(true_ed),  max_false |-> max(false_ed),
                   min_tru |-> min(true_ed),  min_false |-> min(false_ed)]
    /\ TrueSims(df, "pair_cs") = true_cs /\ FalseSims(df, "pair_cs") = false_cs
    /\ TrueSims(df, "pair_ed") = true_ed /\ FalseSims(df, "pair_ed") = false_ed

\* C5: the true-pair and false-pair groups of a stored pass are disjoint,
\* their sizes sum to the size of the pairing set, and the same two groups
\* are behind the summary statistics, the stored distributions and the two
\* samples of the significance test
C5_GroupsPartitionThePairingSet ==
    /\ HasAttr(model, "tr_pairings_df") =>
          GroupsAgree(model.tr_pairings_df, model.train_true_cs, model.train_false_cs,
                      model.train_true_ed, model.train_false_ed,
                      model.tr_cs_pairings_stats, model.tr_ed_pairings_stats)
    /\ HasAttr(model, "tst_pairings_df") =>
          GroupsAgree(model.tst_pairings_df, model.test_true_cs, model.test_false_cs,
                      model.test_true_ed, model.test_false_ed,
                      model.tst_cs_pairings_stats, model.tst_ed_pairings_stats)

\* C5 witness: a pass has stored a true group and a false group, both
\* non-empty, whose cosine similarities differ
C5_Witness ==
    /\ raised.op = "calculate_pair_sims_array" /\ raised.exc = "none"
    /\ HasAttr(model, "tr_pairings_df")
    /\ DOMAIN model.train_true_cs # {} /\ DOMAIN model.train_false_cs # {}
    /\ model.tr_cs_pairings_stats.avg_tru # model.tr_cs_pairings_stats.avg_false

\* C6: for each computed (metric, split) combination the recorded flag is
\* true exactly when the recorded p-value is strictly below 0.01
C6_FlagIffPBelowOnePercent ==
    \A t \in BOOLEAN, c \in BOOLEAN :
        LET a == SigAttrs(t, c)
        IN  HasAttr(model, a.sig) =>
               /\ HasAttr(model, a.p)
               /\ model[a.sig] = (~model[a.p].nan /\ model[a.p].num * 100 < model[a.p].den)

\* C6 witness: one combination recorded p = 0.01 unflagged, another recorded
\* p = 0.009 flagged, a third recorded nan unflagged
C6_Witness ==
    /\ Triple(TRUE, TRUE) \cup Triple(FALSE, FALSE) \cup Triple(TRUE, FALSE) \subseteq DOMAIN model
    /\ model.cs_train_p_val = F(1, 100) /\ ~model.cs_is_train_significant
    /\ model.ed_test_p_val = F(9, 1000) /\ model.ed_is_test_significant
    /\ model.ed_train_p_val = NaN /\ ~model.ed_is_train_significant

\* C7: after self_recognition on a fitted wrapper the rank-frequency count
\* exists and its counts sum to the number of training documents
C7_RankCountTotalsN ==
    (raised.op = "calc_self_recognition_ability" /\ HasAttr(model, "model")) =>
        /\ raised.exc = "none"
        /\ HasAttr(model, "rank_counter")
        /\ Total(model.rank_counter) = model.n_training_docs

\* C8: after self_recognition on a fitted wrapper the rate is the count of
\* rank 0 over the number of documents, lies in [0, 1], and the success flag
\* is set exactly when the rate is at least 0.95
C8_RateAndFlag ==
    (raised.op = "calc_self_recognition_ability" /\ HasAttr(model, "model")) =>
        /\ {"rank_counter", "self_recog_rate", "greater_than_95"} \subseteq DOMAIN model
        /\ model.self_recog_rate =
              F(CounterGet(model.rank_counter, 0), model.n_training_docs)
        /\ 0 <= model.self_recog_rate.num
        /\ model.self_recog_rate.num <= model.self_recog_rate.den
        /\ model.greater_than_95 =
              (100 * model.self_recog_rate.num >= 95 * model.self_recog_rate.den)

\* C9: the aggregate mapping changes only by a recording that returns, only
\* under the recorded name, and only to an entry of a wrapper that holds the
\* results of the whole pipeline; record on a wrapper missing any of them
\* raises and leaves the registry as it was
C9_OnlyCompleteModelsAreRecorded ==
    [][ /\ doc_eval'.eval_dict # doc_eval.eval_dict =>
              /\ raised'.op \in {"update_stats", "train_new_model"}
              /\ raised'.exc = "none"
              /\ raised'.name \in DOMAIN doc_eval'.eval_dict
              /\ Complete(doc_eval'.eval_dict[raised'.name]["model"])
              /\ \A k \in DOMAIN doc_eval'.eval_dict \ {raised'.name} :
                    k \in DOMAIN doc_eval.eval_dict
                    /\ doc_eval'.eval_dict[k] = doc_eval.eval_dict[k]
        /\ (raised'.op = "update_stats" /\ ~Complete(model)) =>
              raised'.exc # "none" /\ doc_eval' = doc_eval ]_vars

\* C9 witness: record has raised on a wrapper that holds both passes and all
\* four tests and lacks only the self-recognition results
C9_Witness ==
    /\ Constructed
    /\ raised.op = "update_stats" /\ raised.exc = "AttributeError"
    /\ (PairAttrs \cup AllSigAttrs) \subseteq DOMAIN model
    /\ CacheLen(model) > 0
    /\ doc_eval.eval_dict = EmptyDict

\* C10: the cache is empty at construction, holds as many vectors as
\* documents, never shrinks, and grows by exactly the corpus size on each
\* self_recognition call that reaches its loop, and by nothing otherwise
C10_CacheGrowsByCorpusSize ==
    [][ Constructed' =>
          /\ Len(model'.inferred_vecs.vecs) = Len(model'.inferred_vecs.docs)
          /\ raised'.op = "__init__" => CacheLen(model') = 0
          /\ (raised'.op # "__init__" /\ Constructed) =>
                /\ CacheLen(model') >= CacheLen(model)
                /\ CacheLen(model') = CacheLen(model) +
                      (IF raised'.op = "calc_self_recognition_ability"
                          /\ HasAttr(model, "model")
                       THEN model.n_training_docs ELSE 0) ]_vars

\* C10 witness: two self_recognition calls over a corpus of two documents
\* have left four entries in the cache
C10_Witness ==
    /\ Constructed
    /\ raised.op = "calc_self_recognition_ability"
    /\ model.n_training_docs = 2
    /\ CacheLen(model) = 2 * model.n_training_docs
    /\ model.inferred_vecs.docs = <<0, 1, 0, 1>>

====
